---- MODULE Spec2Model ----
(***************************************************************************)
(* Model of the gns3-server sources:                                       *)
(*   gns3server/schemas/config.py   ServerSettings (pydantic model)        *)
(*   gns3server/controller/vm.py    VM (controller-side proxy of a node)   *)
(* plus the project file guard and the port allocator, which the           *)
(* repository's tests and settings refer to.                               *)
(***************************************************************************)
EXTENDS Integers, Sequences, FiniteSets, TLC

VARIABLES
    pc,          \* settings: "start" | "loaded" | "refused"
    settings,    \* settings: the ServerSettings object (meaningful when pc = "loaded")
    lastOp,      \* settings: the last load / assignment, its input and its errors
    heap,        \* vm: the dict objects, by reference
    vms,         \* vm: the VM objects constructed so far
    requests,    \* vm: the requests sent to the hypervisors and not yet answered
    outcome,     \* vm: how create() ended, when the last call was one that finished
    vmOp,        \* vm: the last call made on a VM: its kind and the VM's index
    serialized,  \* vm: the record the last call returned, when it was __json__
    fs,          \* files: the file system, absolute path -> content
    fileOp,      \* files: the last file request and its response
    used,        \* ports: the allocated ports per (host, class)
    lock,        \* ports: the holder of each (host, class) lock
    client       \* ports: each client's position and reservation

settingsVars == <<pc, settings, lastOp>>
vmVars == <<heap, vms, requests, outcome, vmOp, serialized>>
fileVars == <<fs, fileOp>>
portVars == <<used, lock, client>>
vars == <<pc, settings, lastOp, heap, vms, requests, outcome, vmOp, serialized, fs, fileOp, used, lock, client>>

(***************************************************************************)
(* ServerSettings                                                          *)
(***************************************************************************)

\* The most fields one configuration file supplies in the model.
MaxSupplied == 3

PortMax == 65535
VncPortMin == 5900
ConsoleStartDefault == 5000
ConsoleEndDefault == 10000
VncStartDefault == 5900
VncEndDefault == 10000
UdpStartDefault == 10000
UdpEndDefault == 30000

PortFields == {"console_start_port_range", "console_end_port_range",
               "vnc_console_start_port_range", "vnc_console_end_port_range",
               "udp_start_port_range", "udp_end_port_range"}
PathFields == {"certfile", "certkey"}
Fields == PathFields \cup {"enable_ssl"} \cup PortFields

\* The fields in the order the class declares them: a validator sees the
\* fields declared before its own.
FieldOrder == <<"certfile", "certkey", "enable_ssl",
                "console_start_port_range", "console_end_port_range",
                "vnc_console_start_port_range", "vnc_console_end_port_range",
                "udp_start_port_range", "udp_end_port_range">>

\* FilePath values: "None" is Python's None, "cert.pem" a file that exists,
\* "missing.pem" a path that is no file.
NoPath == "None"
ExistingFiles == {"cert.pem"}

Defaults == [certfile |-> NoPath, certkey |-> NoPath, enable_ssl |-> FALSE,
             console_start_port_range |-> ConsoleStartDefault,
             console_end_port_range |-> ConsoleEndDefault,
             vnc_console_start_port_range |-> VncStartDefault,
             vnc_console_end_port_range |-> VncEndDefault,
             udp_start_port_range |-> UdpStartDefault,
             udp_end_port_range |-> UdpEndDefault]

\* The values a configuration or an assignment may give a field.
PortSamples == {0, ConsoleStartDefault, VncPortMin, ConsoleEndDefault, PortMax + 1}
PathSamples == {NoPath, "cert.pem", "missing.pem"}

Samples(f) ==
    IF f \in PortFields THEN PortSamples
    ELSE IF f \in PathFields THEN PathSamples
    ELSE BOOLEAN

\* Field(...) constraints and the field's type.
FieldValid(f, v) ==
    IF f \in {"vnc_console_start_port_range", "vnc_console_end_port_range"}
    THEN v >= VncPortMin /\ v <= PortMax
    ELSE IF f \in PortFields THEN v > 0 /\ v <= PortMax
    ELSE IF f \in PathFields THEN v = NoPath \/ v \in ExistingFiles
    ELSE v \in BOOLEAN

\* @validator("console_end_port_range"): TRUE when it returns v, FALSE when it
\* raises.  present is the set of keys of `values`, input their values.
console_port_range(v, present, input) ==
    ~("console_start_port_range" \in present /\ v <= input.console_start_port_range)

\* @validator("vnc_console_end_port_range")
vnc_console_port_range(v, present, input) ==
    ~("vnc_console_start_port_range" \in present /\ v <= input.vnc_console_start_port_range)

\* validate_enable_ssl without its certkey check.
validate_enable_ssl_CertfileOnly(v, present, input) ==
    IF v = TRUE
    THEN ~("certfile" \notin present \/ input.certfile = NoPath)
    ELSE TRUE

\* @validator("enable_ssl")
validate_enable_ssl(v, present, input) ==
    IF v = TRUE
    THEN /\ ~("certfile" \notin present \/ input.certfile = NoPath)
         /\ ~("certkey" \notin present \/ input.certkey = NoPath)
    ELSE TRUE

\* The validators of field f, applied to a value that passed FieldValid.
RunValidators(f, v, present, input) ==
    IF f = "console_end_port_range" THEN console_port_range(v, present, input)
    ELSE IF f = "vnc_console_end_port_range" THEN vnc_console_port_range(v, present, input)
    ELSE IF f = "enable_ssl" THEN validate_enable_ssl(v, present, input)
    ELSE TRUE

\* pydantic's validate_model: the fields in declaration order; a field the
\* input does not supply takes its default and is not validated; a supplied
\* field that fails is left out of `values` and its error is collected.
RECURSIVE ValidateModel(_, _, _, _, _)
ValidateModel(i, input, supplied, present, errors) ==
    IF i > Len(FieldOrder) THEN errors
    ELSE LET f == FieldOrder[i] IN
         IF f \notin supplied
         THEN ValidateModel(i + 1, input, supplied, present \cup {f}, errors)
         ELSE IF FieldValid(f, input[f]) /\ RunValidators(f, input[f], present, input)
         THEN ValidateModel(i + 1, input, supplied, present \cup {f}, errors)
         ELSE ValidateModel(i + 1, input, supplied, present, errors \cup {f})

LoadErrors(input, supplied) == ValidateModel(1, input, supplied, {}, {})

\* validate_assignment: the assigned field alone is validated, against all
\* the other fields of the object.
AssignErrors(f, input) ==
    IF FieldValid(f, input[f]) /\ RunValidators(f, input[f], Fields \ {f}, input)
    THEN {}
    ELSE {f}

Choices(f, supplied) == IF f \in supplied THEN Samples(f) ELSE {Defaults[f]}

SuppliedSets == {S \in SUBSET Fields : Cardinality(S) <= MaxSupplied}

NoOp == [op |-> "none", supplied |-> {}, input |-> Defaults, errors |-> {}]

\* ServerSettings(**raw): the settings object, or a ValidationError.
Load ==
    /\ pc = "start"
    /\ \E S \in SuppliedSets :
       \E cf \in Choices("certfile", S), ck \in Choices("certkey", S),
          ssl \in Choices("enable_ssl", S),
          cs \in Choices("console_start_port_range", S),
          ce \in Choices("console_end_port_range", S),
          vs \in Choices("vnc_console_start_port_range", S),
          ve \in Choices("vnc_console_end_port_range", S),
          us \in Choices("udp_start_port_range", S),
          ue \in Choices("udp_end_port_range", S) :
          LET input == [certfile |-> cf, certkey |-> ck, enable_ssl |-> ssl,
                        console_start_port_range |-> cs, console_end_port_range |-> ce,
                        vnc_console_start_port_range |-> vs, vnc_console_end_port_range |-> ve,
                        udp_start_port_range |-> us, udp_end_port_range |-> ue]
              errors == LoadErrors(input, S)
          IN /\ lastOp' = [op |-> "load", supplied |-> S, input |-> input, errors |-> errors]
             /\ IF errors = {}
                THEN pc' = "loaded" /\ settings' = input
                ELSE pc' = "refused" /\ UNCHANGED settings
    /\ UNCHANGED <<vmVars, fileVars, portVars>>

\* settings.<f> = v on the loaded object (Config.validate_assignment).
Assign ==
    /\ pc = "loaded"
    /\ \E f \in Fields :
       \E v \in Samples(f) :
          LET input == [settings EXCEPT ![f] = v]
              errors == AssignErrors(f, input)
          IN /\ lastOp' = [op |-> "assign", supplied |-> {f}, input |-> input, errors |-> errors]
             /\ settings' = IF errors = {} THEN input ELSE settings
    /\ UNCHANGED <<pc, vmVars, fileVars, portVars>>

(***************************************************************************)
(* VM                                                                      *)
(***************************************************************************)

\* The most VM objects constructed, and the most requests in flight.
MaxVMs == 2
MaxInFlight == 1

\* Python values are modelled by their text: "None" is None, "5000" is 5000.
None == "None"
Projects == {[id |-> "p1"]}
Hypervisors == {[id |-> "h1"], [id |-> "h2"]}
VmIdArgs == {None, "vm1"}
\* str(uuid.uuid4()) of the n-th VM constructed without a vm_id.
Uuids == <<"uuid-a", "uuid-b", "uuid-c", "uuid-d">>

IdKeys == {"vm_id", "name", "console", "console_type"}
PropKeys == {"ram"} \cup IdKeys
PropValue(k) == IF k = "ram" THEN "512" ELSE "stale"
\* The mappings a caller passes as properties: a plain one, and one that
\* already holds the identity keys.
CallerMappings == {[k \in D |-> PropValue(k)] : D \in {{"ram"}, PropKeys}}

\* The dict object that is the default value of __init__'s properties
\* parameter: Python evaluates the default once, when the function is defined.
DefaultRef == 1

\* VM.__init__; properties is a reference into heap.
VMInit(project, hypervisor, vm_id, vm_type, name, console, console_type, properties, uuid) ==
    [id |-> IF vm_id = None THEN uuid ELSE vm_id,
     name |-> name,
     project |-> project,
     hypervisor |-> hypervisor,
     vm_type |-> vm_type,
     console |-> console,
     console_type |-> console_type,
     properties |-> properties]

\* d[k] = v on a dict.
SetItem(d, k, v) == [x \in DOMAIN d \cup {k} |-> IF x = k THEN v ELSE d[x]]

\* "/projects/{}/{}/vms".format(project.id, vm_type)
CreatePath(project_id, vm_type) == <<"projects", project_id, vm_type, "vms">>

\* create() storing an identity key only where the dict has none.
CreateDataKeepExisting(vm, d) ==
    [k \in DOMAIN d \cup {"vm_id", "name", "console", "console_type"} |->
        IF k \in DOMAIN d THEN d[k]
        ELSE IF k = "vm_id" THEN vm.id
        ELSE IF k = "name" THEN vm.name
        ELSE IF k = "console" THEN vm.console
        ELSE vm.console_type]

\* The dict create() sends: data is self._properties itself, and the four
\* identity keys are stored into it.
CreateData(vm, d) ==
    SetItem(SetItem(SetItem(SetItem(d, "vm_id", vm.id), "name", vm.name),
                    "console", vm.console), "console_type", vm.console_type)

\* __json__ with console and console_type taken from each other's field.
JsonConsoleSwapped(vm, h) ==
    [hypervisor_id |-> vm.hypervisor.id,
     project_id |-> vm.project.id,
     vm_id |-> vm.id,
     vm_type |-> vm.vm_type,
     name |-> vm.name,
     console |-> vm.console_type,
     console_type |-> vm.console,
     properties |-> h[vm.properties]]

\* VM.__json__
Json(vm, h) ==
    [hypervisor_id |-> vm.hypervisor.id,
     project_id |-> vm.project.id,
     vm_id |-> vm.id,
     vm_type |-> vm.vm_type,
     name |-> vm.name,
     console |-> vm.console,
     console_type |-> vm.console_type,
     properties |-> h[vm.properties]]

\* What the hypervisor answers: created, rejected, or no answer at all.
Responses == {[status |-> 201, body |-> "created"],
              [status |-> 409, body |-> "conflict"],
              [status |-> 0, body |-> "unreachable"]}

IsSuccess(status) == status >= 200 /\ status < 300

\* hypervisor.post: returns on a 2xx response and raises otherwise.
PostResult(response) ==
    IF response.status = 0
    THEN [kind |-> "ComputeUnreachable", status |-> 0, body |-> ""]
    ELSE IF IsSuccess(response.status)
    THEN [kind |-> "returned", status |-> response.status, body |-> response.body]
    ELSE [kind |-> "ComputeRejected", status |-> response.status, body |-> response.body]

\* create() has no handler around the post: what post raises, create raises.
CreateResult(response) == PostResult(response)

NoOutcome == [vm |-> 0, response |-> [status |-> 0, body |-> ""],
              result |-> [kind |-> "none", status |-> 0, body |-> ""]]

\* VM(project, hypervisor, ...): properties omitted, or a dict the caller
\* builds for this call.
NewVM ==
    /\ Len(vms) < MaxVMs
    /\ \E project \in Projects, hypervisor \in Hypervisors, vm_id \in VmIdArgs :
       \/ /\ vms' = Append(vms, VMInit(project, hypervisor, vm_id, "vpcs", "R1",
                                          "5000", "telnet", DefaultRef, Uuids[Len(vms) + 1]))
          /\ UNCHANGED heap
       \/ \E m \in CallerMappings :
             /\ heap' = Append(heap, m)
             /\ vms' = Append(vms, VMInit(project, hypervisor, vm_id, "vpcs", "R1",
                                          "5000", "telnet", Len(heap) + 1, Uuids[Len(vms) + 1]))
    /\ vmOp' = [op |-> "init", vm |-> Len(vms) + 1]
    /\ outcome' = NoOutcome
    /\ serialized' = <<>>
    /\ UNCHANGED <<requests, settingsVars, fileVars, portVars>>

\* vm.create() up to the point where the post is sent.
Create ==
    /\ Len(requests) < MaxInFlight
    /\ \E i \in 1..Len(vms) :
       LET vm == vms[i]
           data == CreateData(vm, heap[vm.properties])
       IN /\ heap' = [heap EXCEPT ![vm.properties] = data]
          /\ requests' = Append(requests,
                [vm |-> i, hypervisor |-> vm.hypervisor.id, method |-> "POST",
                 path |-> CreatePath(vm.project.id, vm.vm_type), data |-> data])
          /\ vmOp' = [op |-> "create", vm |-> i]
    /\ outcome' = NoOutcome
    /\ serialized' = <<>>
    /\ UNCHANGED <<vms, settingsVars, fileVars, portVars>>

\* The answer to one request in flight arrives and its create() finishes.
Respond ==
    /\ \E j \in 1..Len(requests), response \in Responses :
          /\ requests' = SubSeq(requests, 1, j - 1) \o SubSeq(requests, j + 1, Len(requests))
          /\ outcome' = [vm |-> requests[j].vm, response |-> response,
                         result |-> CreateResult(response)]
          /\ vmOp' = [op |-> "finish", vm |-> requests[j].vm]
    /\ serialized' = <<>>
    /\ UNCHANGED <<heap, vms, settingsVars, fileVars, portVars>>

\* vm.__json__()
Serialize ==
    /\ \E i \in 1..Len(vms) :
          /\ serialized' = <<Json(vms[i], heap)>>
          /\ vmOp' = [op |-> "json", vm |-> i]
    /\ outcome' = NoOutcome
    /\ UNCHANGED <<heap, vms, requests, settingsVars, fileVars, portVars>>

(***************************************************************************)
(* Project files                                                           *)
(***************************************************************************)

\* The most segments of a requested file path.
MaxPathLen == 2

ProjectRoot == <<"projects", "p1">>
Segments == {"..", "hello"}
Contents == {"world", "other"}

RECURSIVE SeqsUpTo(_)
SeqsUpTo(n) ==
    IF n = 0 THEN {<<>>}
    ELSE LET shorter == SeqsUpTo(n - 1)
         IN shorter \cup {Append(q, x) : q \in {t \in shorter : Len(t) = n - 1}, x \in Segments}

\* A requested path: relative to the project root, or absolute.
RequestPaths == {[absolute |-> a, segs |-> q] :
                    a \in BOOLEAN, q \in SeqsUpTo(MaxPathLen) \ {<<>>}}

\* Joining base and the segments and normalising: ".." drops the last
\* component, and at the top of the file system it is ignored.
RECURSIVE Normalize(_, _)
Normalize(base, segs) ==
    IF segs = <<>> THEN base
    ELSE IF Head(segs) = ".."
    THEN Normalize(IF base = <<>> THEN base ELSE SubSeq(base, 1, Len(base) - 1), Tail(segs))
    ELSE Normalize(Append(base, Head(segs)), Tail(segs))

Target(root, path) == Normalize(IF path.absolute THEN <<>> ELSE root, path.segs)

IsUnder(root, p) == Len(p) > Len(root) /\ SubSeq(p, 1, Len(root)) = root

NotFound == <<"NotFound">>

\* resolve without the descendant check.
ResolveUnchecked(root, path) == Target(root, path)

\* ProjectFileGuard.resolve
Resolve(root, path) ==
    IF IsUnder(root, Target(root, path)) THEN Target(root, path) ELSE NotFound

NoFileOp == [op |-> "none", path |-> [absolute |-> FALSE, segs |-> <<>>],
             status |-> 0, content |-> "", touched |-> {}]

\* The files that exist before any request: one next to the project root,
\* where ../hello points, and one at the top of the file system.
InitFs == [p \in {<<"projects", "hello">>, <<"hello">>} |-> "secret"]

\* GET /projects/{project_id}/files/{file_path}
ReadFile ==
    /\ \E path \in RequestPaths :
       LET p == Resolve(ProjectRoot, path)
       IN fileOp' = IF p = NotFound
                    THEN [op |-> "read", path |-> path, status |-> 404,
                          content |-> "", touched |-> {}]
                    ELSE IF p \notin DOMAIN fs
                    THEN [op |-> "read", path |-> path, status |-> 404,
                          content |-> "", touched |-> {p}]
                    ELSE [op |-> "read", path |-> path, status |-> 200,
                          content |-> fs[p], touched |-> {p}]
    /\ UNCHANGED <<fs, settingsVars, vmVars, portVars>>

\* POST /projects/{project_id}/files/{file_path}
WriteFile ==
    /\ \E path \in RequestPaths, content \in Contents :
       LET p == Resolve(ProjectRoot, path)
       IN IF p = NotFound
          THEN /\ fileOp' = [op |-> "write", path |-> path, status |-> 404,
                             content |-> "", touched |-> {}]
               /\ UNCHANGED fs
          ELSE /\ fileOp' = [op |-> "write", path |-> path, status |-> 204,
                             content |-> "", touched |-> {p}]
               /\ fs' = [q \in DOMAIN fs \cup {p} |-> IF q = p THEN content ELSE fs[q]]
    /\ UNCHANGED <<settingsVars, vmVars, portVars>>

(***************************************************************************)
(* PortAllocator                                                           *)
(***************************************************************************)

\* The clients that reserve and release concurrently, and the ports of a range.
NumClients == 2
RangeSize == 2

Clients == 1..NumClients
Keys == {<<h, c>> : h \in {"h1", "h2"}, c \in {"console", "vnc"}}

\* configure(class, lower, upper): the range [lower, upper) of a class.  The
\* console range has a port for every client, the vnc range one port less.
Lower(key) == IF key[2] = "console" THEN ConsoleStartDefault ELSE VncStartDefault
Upper(key) == Lower(key) + (IF key[2] = "console" THEN RangeSize ELSE RangeSize - 1)
Range(key) == Lower(key)..(Upper(key) - 1)

NoPort == 0
NoKey == <<"", "">>
Idle == [at |-> "idle", key |-> NoKey, port |-> NoPort]

Min(S) == CHOOSE x \in S : \A y \in S : x <= y

\* The lowest free port of the range, NoPort when none is free.
LowestFree(key, usedPorts) ==
    IF Range(key) \ usedPorts = {} THEN NoPort ELSE Min(Range(key) \ usedPorts)

\* A lock that never excludes anybody.
CanLockAlways(key, holder) == TRUE

\* The lock of a (host, class) pair can be taken when nobody holds it.
CanLock(key, holder) == holder[key] = 0

\* reserve and release start by taking the lock of their (host, class).
ReserveEnter ==
    /\ \E c \in Clients, key \in Keys :
          /\ client[c].at = "idle"
          /\ CanLock(key, lock)
          /\ lock' = [lock EXCEPT ![key] = c]
          /\ client' = [client EXCEPT ![c] = [at |-> "scan", key |-> key, port |-> NoPort]]
    /\ UNCHANGED <<used, settingsVars, vmVars, fileVars>>

\* reserve picks the lowest free port, or fails with ResourceExhausted.
ReserveScan ==
    /\ \E c \in Clients :
          /\ client[c].at = "scan"
          /\ LET port == LowestFree(client[c].key, used[client[c].key])
             IN client' = [client EXCEPT ![c] =
                    IF port = NoPort
                    THEN [at |-> "exhausted", key |-> @.key, port |-> NoPort]
                    ELSE [at |-> "mark", key |-> @.key, port |-> port]]
    /\ UNCHANGED <<used, lock, settingsVars, vmVars, fileVars>>

\* reserve marks the port used, gives the lock back and returns the port.
ReserveMark ==
    /\ \E c \in Clients :
          /\ client[c].at = "mark"
          /\ used' = [used EXCEPT ![client[c].key] = @ \cup {client[c].port}]
          /\ lock' = [lock EXCEPT ![client[c].key] = IF @ = c THEN 0 ELSE @]
          /\ client' = [client EXCEPT ![c].at = "holding"]
    /\ UNCHANGED <<settingsVars, vmVars, fileVars>>

\* reserve failed: the lock is given back and the client may try again.
ReserveFail ==
    /\ \E c \in Clients :
          /\ client[c].at = "exhausted"
          /\ lock' = [lock EXCEPT ![client[c].key] = IF @ = c THEN 0 ELSE @]
          /\ client' = [client EXCEPT ![c] = Idle]
    /\ UNCHANGED <<used, settingsVars, vmVars, fileVars>>

\* release(hostKey, class, port) by the holder of the reservation.
Release ==
    /\ \E c \in Clients :
          /\ client[c].at = "holding"
          /\ CanLock(client[c].key, lock)
          /\ used' = [used EXCEPT ![client[c].key] = @ \ {client[c].port}]
          /\ client' = [client EXCEPT ![c] = Idle]
    /\ UNCHANGED <<lock, settingsVars, vmVars, fileVars>>

(***************************************************************************)
(* Specifications                                                          *)
(***************************************************************************)

Init ==
    /\ pc = "start"
    /\ settings = Defaults
    /\ lastOp = NoOp
    /\ heap = <<[k \in {} |-> ""]>>
    /\ vms = <<>>
    /\ requests = <<>>
    /\ outcome = NoOutcome
    /\ vmOp = [op |-> "none", vm |-> 0]
    /\ serialized = <<>>
    /\ fs = InitFs
    /\ fileOp = NoFileOp
    /\ used = [key \in Keys |-> {}]
    /\ lock = [key \in Keys |-> 0]
    /\ client = [c \in Clients |-> Idle]

NextSettings == Load \/ Assign
NextVM == NewVM \/ Create \/ Respond \/ Serialize
NextFiles == ReadFile \/ WriteFile
NextPorts == ReserveEnter \/ ReserveScan \/ ReserveMark \/ ReserveFail \/ Release

SpecSettings == Init /\ [][NextSettings]_vars
SpecVM == Init /\ [][NextVM]_vars
SpecFiles == Init /\ [][NextFiles]_vars
SpecPorts == Init /\ [][NextPorts]_vars

Next == NextSettings \/ NextVM \/ NextFiles \/ NextPorts
Spec == Init /\ [][Next]_vars

(***************************************************************************)
(* Properties                                                              *)
(***************************************************************************)

RangePairs == {<<"console_start_port_range", "console_end_port_range">>,
               <<"vnc_console_start_port_range", "vnc_console_end_port_range">>,
               <<"udp_start_port_range", "udp_end_port_range">>}

\* C1: a load whose configuration has, for any of the three port-range
\* pairs, an end value less than or equal to the start value is refused with
\* a validation error, and no settings object is produced.
C1_LoadRejectsEveryBadRange ==
    lastOp.op = "load" =>
        ((\E pr \in RangePairs : lastOp.input[pr[2]] <= lastOp.input[pr[1]])
            => pc = "refused" /\ lastOp.errors # {})

\* TRUE when the field holds the path of a file.
IsSet(input, f) == input[f] \in ExistingFiles

\* C7: a load or an assignment that sets enable_ssl to true fails with a
\* validation error on enable_ssl unless certfile and certkey are both set,
\* and passes the enable_ssl check when both are; enable_ssl false never
\* fails the enable_ssl check.  A load without errors produces the settings
\* object, a load with errors produces none.
C7_EnableSslNeedsCertAndKey ==
    /\ (lastOp.op \in {"load", "assign"} /\ "enable_ssl" \in lastOp.supplied) =>
          /\ ("enable_ssl" \in lastOp.errors) <=>
                 /\ lastOp.input.enable_ssl = TRUE
                 /\ ~(IsSet(lastOp.input, "certfile") /\ IsSet(lastOp.input, "certkey"))
          /\ lastOp.input.enable_ssl = FALSE => "enable_ssl" \notin lastOp.errors
    /\ lastOp.op = "load" =>
          /\ lastOp.errors = {} => pc = "loaded" /\ settings = lastOp.input
          /\ lastOp.errors # {} => pc = "refused"
    /\ (pc = "loaded" /\ lastOp.op = "assign" /\ lastOp.errors = {}) => settings = lastOp.input

\* C7 witness: enable_ssl true with a certfile and no certkey was refused.
C7_Witness ==
    /\ lastOp.op = "load"
    /\ "enable_ssl" \in lastOp.supplied
    /\ lastOp.input.enable_ssl = TRUE
    /\ lastOp.input.certfile = "cert.pem"
    /\ lastOp.input.certkey = NoPath
    /\ lastOp.errors = {"enable_ssl"}
    /\ pc = "refused"

Ordered(s) ==
    /\ s.console_end_port_range > s.console_start_port_range
    /\ s.vnc_console_end_port_range > s.vnc_console_start_port_range

\* C10: an assignment to a start or an end field of loaded settings whose
\* ranges are ordered leaves them ordered, and a rejected assignment leaves
\* the settings unchanged.
C10_AssignmentsKeepOrdering ==
    [][(pc = "loaded" /\ Ordered(settings) /\ lastOp'.op = "assign")
          => /\ Ordered(settings')
             /\ lastOp'.errors # {} => settings' = settings]_vars

\* A step that is create() of the VM with index i.
CreateStepOf(i) == vmOp'.op = "create" /\ vmOp'.vm = i

\* C2: create() of a VM built with a caller-supplied mapping leaves that
\* mapping with the keys and values it had before the call.
C2_CreateKeepsCallerMapping ==
    [][\A i \in 1..Len(vms) :
          (CreateStepOf(i) /\ vms[i].properties # DefaultRef)
             => heap'[vms[i].properties] = heap[vms[i].properties]]_vars

\* C3: create() of one VM writes nothing into the properties of another VM
\* built without a properties argument, and a VM just built without a
\* properties argument has empty properties.
C3_DefaultPropertiesNotShared ==
    [][/\ \A i, j \in 1..Len(vms) :
             (i # j /\ CreateStepOf(j) /\ vms[i].properties = DefaultRef)
                => heap'[vms[i].properties] = heap[vms[i].properties]
       /\ (vmOp'.op = "init" /\ Len(vms') = Len(vms) + 1
              /\ vms'[Len(vms')].properties = DefaultRef)
             => DOMAIN heap'[DefaultRef] = {}]_vars

\* The value create() gives an identity key of the body.
OwnValue(vm, k) ==
    IF k = "vm_id" THEN vm.id
    ELSE IF k = "name" THEN vm.name
    ELSE IF k = "console" THEN vm.console
    ELSE vm.console_type

\* C4: create() sends exactly one request, a POST to the VM's hypervisor at
\* /projects/<project id>/<vm_type>/vms, whose body, as it is when the
\* request is sent, has the keys of the properties and the four identity
\* keys; the identity keys hold the VM's own id, name, console and console
\* type, whatever the properties held under them, and every other key holds
\* the properties' value.
C4_CreatePostsOwnIdentity ==
    [][\A i \in 1..Len(vms) :
          CreateStepOf(i) =>
             /\ Len(requests') = Len(requests) + 1
             /\ SubSeq(requests', 1, Len(requests)) = requests
             /\ LET r == requests'[Len(requests')]
                    vm == vms[i]
                    before == heap[vm.properties]
                IN /\ r.method = "POST"
                   /\ r.hypervisor = vm.hypervisor.id
                   /\ r.path = <<"projects", vm.project.id, vm.vm_type, "vms">>
                   /\ DOMAIN r.data = DOMAIN before \cup IdKeys
                   /\ \A k \in DOMAIN r.data :
                         r.data[k] = IF k \in IdKeys THEN OwnValue(vm, k) ELSE before[k]]_vars

\* C4 witness: create() of a VM whose properties held "ram" sent a body with
\* the VM's own id.
C4_Witness ==
    /\ vmOp.op = "create"
    /\ requests # <<>>
    /\ requests[Len(requests)].vm = vmOp.vm
    /\ "ram" \in DOMAIN requests[Len(requests)].data
    /\ requests[Len(requests)].data["vm_id"] = vms[vmOp.vm].id
    /\ vms[vmOp.vm].properties # DefaultRef

\* C5: a create() that the Compute answered with a non-success response
\* ended with RemoteCreateFailed carrying the response's status and body.
C5_NonSuccessRaisesRemoteCreateFailed ==
    (outcome.result.kind # "none" /\ outcome.response.status # 0
        /\ ~IsSuccess(outcome.response.status))
       => /\ outcome.result.kind = "RemoteCreateFailed"
          /\ outcome.result.status = outcome.response.status
          /\ outcome.result.body = outcome.response.body

\* The VM a serialized record must describe.
JsonValuesOf(r, vm) ==
    /\ r.project_id = vm.project.id
    /\ r.vm_id = vm.id
    /\ r.vm_type = vm.vm_type
    /\ r.name = vm.name
    /\ r.console = vm.console
    /\ r.console_type = vm.console_type
    /\ r.properties = heap[vm.properties]

\* C6 as stated: the serialized record has exactly the keys compute_id,
\* project_id, vm_id, vm_type, name, console, console_type and properties.
C6_JsonHasComputeId ==
    (vmOp.op = "json" /\ serialized # <<>>) =>
        /\ DOMAIN serialized[1] = {"compute_id", "project_id", "vm_id", "vm_type",
                                   "name", "console", "console_type", "properties"}
        /\ serialized[1].compute_id = vms[vmOp.vm].hypervisor.id
        /\ JsonValuesOf(serialized[1], vms[vmOp.vm])

\* C6 amended: the serialized record has exactly the keys hypervisor_id,
\* project_id, vm_id, vm_type, name, console, console_type and properties,
\* where hypervisor_id is the id of the assigned hypervisor, project_id the
\* id of the owning project, and the other fields the VM's own values.
C6_JsonHasHypervisorId ==
    (vmOp.op = "json" /\ serialized # <<>>) =>
        /\ DOMAIN serialized[1] = {"hypervisor_id", "project_id", "vm_id", "vm_type",
                                   "name", "console", "console_type", "properties"}
        /\ serialized[1].hypervisor_id = vms[vmOp.vm].hypervisor.id
        /\ JsonValuesOf(serialized[1], vms[vmOp.vm])

\* C6 witness: a VM on hypervisor h2 was serialized after its create().
C6_Witness ==
    /\ vmOp.op = "json"
    /\ serialized # <<>>
    /\ serialized[1].hypervisor_id = "h2"
    /\ "vm_id" \in DOMAIN serialized[1].properties

\* C8: a read or a write of a path that resolves outside the project root
\* answers not-found with no content, as a read of a missing file does, and
\* touches no file; the files outside the project root stay as they were.
C8_EscapingPathIsNotFound ==
    /\ (fileOp.op # "none" /\ ~IsUnder(ProjectRoot, Target(ProjectRoot, fileOp.path)))
          => fileOp.status = 404 /\ fileOp.content = "" /\ fileOp.touched = {}
    /\ \A p \in fileOp.touched : IsUnder(ProjectRoot, p)
    /\ \A p \in DOMAIN fs : ~IsUnder(ProjectRoot, p) => p \in DOMAIN InitFs
    /\ \A p \in DOMAIN InitFs : p \in DOMAIN fs /\ fs[p] = InitFs[p]

\* C8 witness: after "world" was written to hello, a write to ../hello was
\* answered not-found.
C8_Witness ==
    /\ fileOp.op = "write"
    /\ fileOp.path = [absolute |-> FALSE, segs |-> <<"..", "hello">>]
    /\ fileOp.status = 404
    /\ Append(ProjectRoot, "hello") \in DOMAIN fs
    /\ fs[Append(ProjectRoot, "hello")] = "world"

\* C9: no port of a (host, class) is held by two clients at once, the used
\* set of a (host, class) is the set of the ports held, and a reservation
\* fails only on a range with fewer ports than there are clients.
C9_ReservationsAreDistinct ==
    /\ \A c1, c2 \in Clients :
          (c1 # c2 /\ client[c1].at = "holding" /\ client[c2].at = "holding"
              /\ client[c1].key = client[c2].key)
             => client[c1].port # client[c2].port
    /\ \A key \in Keys :
          used[key] = {client[c].port : c \in {d \in Clients :
                                                 client[d].at = "holding" /\ client[d].key = key}}
    /\ \A c \in Clients :
          client[c].at = "holding" => client[c].port \in Range(client[c].key)
    /\ \A c \in Clients :
          client[c].at = "exhausted" => Cardinality(Range(client[c].key)) < NumClients

\* C9 witness: every client holds a port of the same (host, class).
C9_Witness ==
    \E key \in Keys :
        /\ \A c \in Clients : client[c].at = "holding" /\ client[c].key = key
        /\ Cardinality({client[c].port : c \in Clients}) = NumClients

====
